---- MODULE Spec2Model ----
(***************************************************************************)
(* CrazySerialTerm: the serial session of class Terminal                   *)
(* (src/CrazySerialTerm.py).  The UI thread runs the Qt handlers           *)
(* (toggle_connection, connect, disconnect, handleDisconnect, checkPorts,  *)
(* sendData, toggle_logging); every connect starts one reader thread       *)
(* running readData; the reader talks to the UI thread only through        *)
(* queued invocations (QMetaObject.invokeMethod, Qt.QueuedConnection).     *)
(***************************************************************************)
EXTENDS Integers, Sequences, FiniteSets, TLC

\* ---- bounds of the model ------------------------------------------------
MaxSessions == 2      \* Serial objects / reader threads existing at the same time
MaxRx == 2            \* bytes the device ever sends
MaxFaults == 1        \* abnormal events: port errors, unplugging, join timeouts
MaxQueue == 2         \* queued invocation pairs pending in the Qt event queue
MaxTx == 2            \* cap of the tx byte counter

\* ---- program constants --------------------------------------------------
max_errors == 5
NL == 10
CR == 13

None == 0
Ids == 1..MaxSessions
Bytes == {NL, 65}

VARIABLES
    \* --- Terminal fields (src/CrazySerialTerm.py:78-87) ---
    serial_port,          \* None or the id of the serial.Serial object
    read_thread,          \* None or the id of the threading.Thread object
    read_thread_running,  \* the running flag
    log_file,             \* TRUE when a log file is open
    rx_bytes_count,
    tx_bytes_count,
    command_history,
    history_index,
    \* --- widgets read by the handlers ---
    inputField,
    repeatCheck,
    repeat_timer,         \* TRUE when the repeat QTimer is active
    repeatInterval,       \* text of the interval field
    timer_interval,       \* interval the active QTimer was started with, 0 when stopped
    portItems,            \* TRUE when portSelect lists the device
    \* --- the serial.Serial objects and the device ---
    handle,               \* id -> "unused" | "open" | "lost" | "closed"
    rxq,                  \* bytes pending in the OS input buffer of the device
    devicePresent,        \* the device is enumerated by comports()
    \* --- the reader threads (locals of readData) ---
    pc,                   \* id -> position in readData
    error_count,
    temp_buffer,
    in_waiting,
    late,                 \* id -> (datetime.now() - last_time) > timeout_seconds
    rdh,                  \* id -> Serial object on which read() is in progress
    \* --- the UI thread ---
    ui,                   \* position of the UI thread
    uiRet,                \* where disconnect() returns to
    queue,                \* queued invocations posted by the reader threads
    \* --- observation ---
    appended,             \* display lines appended by the running/last handler and by
                          \* the queued appendFormattedText calls delivered since
    dsteps,               \* steps of the running/last disconnect() that found a session,
                          \* then "again" once disconnect() was called again without one
    undelivered,          \* id -> bytes read by the thread, not yet given to the formatter
    closeRaised,          \* close() raised in the running/last disconnect()
    rxBudget,
    faultBudget,
    \* --- processReceivedData on a reader thread ---
    last_receive_time,    \* Terminal field: TRUE once _add_timestamp has set it
    pdata,                \* id -> the frame (data) being processed
    rxl,                  \* id -> rx_bytes_count as loaded by `+=`
    lf,                   \* id -> the log file object loaded for write():
                          \*       "none" | "open" | "closed"
    sessionRendered,      \* a frame was rendered since the last successful connect
    lastRender,           \* how the last frame was rendered and what became of it
    \* --- a function applied on its own ---
    arg,                  \* the arguments
    res                   \* the result, "none" before the call

vars == <<serial_port, read_thread, read_thread_running, log_file, rx_bytes_count,
          tx_bytes_count, command_history, history_index, inputField,
          repeatCheck, repeat_timer, portItems, handle, rxq, devicePresent,
          pc, error_count, temp_buffer, in_waiting, late, rdh,
          ui, uiRet, queue, appended, dsteps, undelivered, closeRaised,
          rxBudget, faultBudget, last_receive_time, pdata, rxl, lf,
          sessionRendered, lastRender, arg, res, repeatInterval, timer_interval>>

uiFields == <<serial_port, read_thread, read_thread_running>>
historyFields == <<command_history, history_index, inputField>>
sendFields == <<repeatCheck, repeat_timer, historyFields, tx_bytes_count>>
deviceVars == <<handle, rxq, devicePresent>>
readerVars == <<pc, error_count, temp_buffer, in_waiting, late, rdh, undelivered,
                rx_bytes_count>>
budgets == <<rxBudget, faultBudget>>
procVars == <<last_receive_time, pdata, rxl, lf, sessionRendered, lastRender>>
unitVars == <<arg, res>>
intervalVars == <<repeatInterval, timer_interval>>

\* ---- helpers ------------------------------------------------------------
Alive(t) == pc[t] \notin {"none", "done", "crashed"}

\* serial.Serial.is_open: the flag pyserial sets in open() and clears in close()
IsOpen(h) == handle[h] \in {"open", "lost"}

Min(a, b) == IF a < b THEN a ELSE b
Contains(seq, b) == \E i \in 1..Len(seq) : seq[i] = b

\* A queued pair of invocations.  "err": appendFormattedText(error line) then
\* handleDisconnect(), as posted by _handle_serial_error; "rx": updateStatusBar()
\* then appendFormattedText(frame), as posted by processReceivedData; "disc": the
\* handleDisconnect() left of an "err" pair whose line has been delivered.
Req(k, t) == [k |-> k, from |-> t]

\* _handle_serial_error(error_message)
HandleSerialError(t) == Append(queue, Req("err", t))

\* ---- initial state: Terminal.__init__ -----------------------------------
InitTerminal ==
    /\ serial_port = None
    /\ read_thread = None
    /\ read_thread_running = FALSE
    /\ log_file = FALSE
    /\ rx_bytes_count = 0
    /\ tx_bytes_count = 0
    /\ command_history = <<>>
    /\ history_index = -1
    /\ inputField = <<>>
    /\ repeatCheck = FALSE
    /\ repeat_timer = FALSE
    /\ repeatInterval = "1000"
    /\ timer_interval = 0
    /\ portItems = TRUE
    /\ handle = [h \in Ids |-> "unused"]
    /\ rxq = <<>>
    /\ devicePresent = TRUE
    /\ pc = [t \in Ids |-> "none"]
    /\ error_count = [t \in Ids |-> 0]
    /\ temp_buffer = [t \in Ids |-> <<>>]
    /\ in_waiting = [t \in Ids |-> 0]
    /\ late = [t \in Ids |-> FALSE]
    /\ rdh = [t \in Ids |-> None]
    /\ ui = "idle"
    /\ uiRet = "idle"
    /\ queue = <<>>
    /\ appended = <<>>
    /\ dsteps = <<>>
    /\ undelivered = [t \in Ids |-> <<>>]
    /\ closeRaised = FALSE
    /\ last_receive_time = FALSE
    /\ pdata = [t \in Ids |-> <<>>]
    /\ rxl = [t \in Ids |-> 0]
    /\ lf = [t \in Ids |-> "none"]
    /\ sessionRendered = FALSE
    /\ lastRender = "none"

Init ==
    /\ InitTerminal
    /\ rxBudget = MaxRx
    /\ faultBudget = MaxFaults
    /\ arg = "none"
    /\ res = "none"

\* ---- disconnect() -------------------------------------------------------
\* disconnect() without its `if self.serial_port:` test
DisconnectBegin_Unguarded(ret, lines) ==
    /\ closeRaised' = FALSE
    /\ read_thread_running' = FALSE
    /\ dsteps' = <<"flag">>
    /\ appended' = lines
    /\ uiRet' = ret
    /\ ui' = "d_join"

\* Entry of disconnect(), called with the display lines `lines` already
\* appended by the running handler, returning to `ret`.
\* With a session: step (1), clear the running flag.  Without: one line.
DisconnectBegin(ret, lines) ==
    /\ closeRaised' = FALSE
    /\ IF serial_port # None
       THEN /\ read_thread_running' = FALSE
            /\ dsteps' = <<"flag">>
            /\ appended' = lines
            /\ uiRet' = ret
            /\ ui' = "d_join"
       ELSE /\ appended' = Append(lines, "Aucune connexion active")
            /\ dsteps' = IF dsteps # <<>> /\ dsteps[Len(dsteps)] = "display"
                         THEN Append(dsteps, "again") ELSE dsteps
            /\ ui' = ret
            /\ UNCHANGED <<read_thread_running, uiRet>>

\* a handler of the UI thread that does not call disconnect() starts
NoDisconnect(lines) ==
    /\ appended' = lines
    /\ dsteps' = <<>>
    /\ closeRaised' = FALSE
    /\ UNCHANGED <<read_thread_running, uiRet>>

\* if self.read_thread: if self.read_thread.is_alive(): join(0.5)
DisconnectCheckThread ==
    /\ ui = "d_join"
    /\ ui' = IF read_thread # None /\ Alive(read_thread) THEN "d_joining" ELSE "d_close"
    /\ UNCHANGED <<unitVars, intervalVars, procVars, uiFields, log_file, sendFields, portItems, deviceVars, readerVars,
                   uiRet, queue, appended, dsteps, closeRaised, budgets>>

\* join(0.5) returns because the reader thread has ended
DisconnectJoined ==
    /\ ui = "d_joining"
    /\ ~Alive(read_thread)
    /\ ui' = "d_close"
    /\ dsteps' = Append(dsteps, "join")
    /\ UNCHANGED <<unitVars, intervalVars, procVars, uiFields, log_file, sendFields, portItems, deviceVars, readerVars,
                   uiRet, queue, appended, closeRaised, budgets>>

\* join(0.5) returns after 500 ms with the reader thread still alive
DisconnectJoinTimeout ==
    /\ ui = "d_joining"
    /\ Alive(read_thread)
    /\ faultBudget > 0
    /\ faultBudget' = faultBudget - 1
    /\ ui' = "d_close"
    /\ dsteps' = Append(dsteps, "join")
    /\ UNCHANGED <<unitVars, intervalVars, procVars, uiFields, log_file, sendFields, portItems, deviceVars, readerVars,
                   uiRet, queue, appended, closeRaised, rxBudget>>

\* self.serial_port.close() inside try/except: an exception is logged, not raised
DisconnectClose ==
    /\ ui = "d_close"
    /\ ui' = "d_null"
    /\ IF serial_port # None /\ IsOpen(serial_port)
       THEN /\ dsteps' = Append(dsteps, "close")
            /\ \/ /\ handle' = [handle EXCEPT ![serial_port] = "closed"]
                  /\ rxq' = <<>>
                  /\ UNCHANGED <<closeRaised, faultBudget>>
               \/ /\ faultBudget > 0
                  /\ faultBudget' = faultBudget - 1
                  /\ closeRaised' = TRUE
                  /\ UNCHANGED <<handle, rxq>>
       ELSE UNCHANGED <<dsteps, handle, rxq, closeRaised, faultBudget>>
    /\ UNCHANGED <<unitVars, intervalVars, procVars, uiFields, log_file, sendFields, portItems, devicePresent, readerVars,
                   uiRet, queue, appended, rxBudget>>

\* the session state cleared in the try body instead of the finally clause
DisconnectNull_InTry ==
    /\ ui = "d_null"
    /\ ui' = "d_rest"
    /\ serial_port' = IF closeRaised THEN serial_port ELSE None
    /\ read_thread' = IF closeRaised THEN read_thread ELSE None
    /\ dsteps' = Append(dsteps, "null")
    /\ UNCHANGED <<unitVars, intervalVars, procVars, read_thread_running, log_file, sendFields, portItems, deviceVars,
                   readerVars, uiRet, queue, appended, closeRaised, budgets>>

\* finally: self.serial_port = None; self.read_thread = None
DisconnectNull ==
    /\ ui = "d_null"
    /\ ui' = "d_rest"
    /\ serial_port' = None
    /\ read_thread' = None
    /\ dsteps' = Append(dsteps, "null")
    /\ UNCHANGED <<unitVars, intervalVars, procVars, read_thread_running, log_file, sendFields, portItems, deviceVars,
                   readerVars, uiRet, queue, appended, closeRaised, budgets>>

\* stopLogging(): the line it appends unless writing the end marker raised
StopLoggingLines(raised) == IF log_file /\ ~raised THEN <<"Enregistrement termine">> ELSE <<>>

\* stopLogging(): self.log_file.close() closes the file object, also for a
\* thread that loaded a reference to it
StopLoggingCloses(raised) ==
    IF log_file /\ ~raised
    THEN [t \in Ids |-> IF lf[t] = "open" THEN "closed" ELSE lf[t]]
    ELSE lf

\* the 'Déconnecté' line appended before stopLogging() and the timer stop
DisconnectFinish_DisplayFirst ==
    /\ ui = "d_rest"
    /\ ui' = uiRet
    /\ \E raised \in BOOLEAN :
          /\ raised => log_file
          /\ appended' = appended \o <<"Deconnecte">> \o StopLoggingLines(raised)
          /\ lf' = StopLoggingCloses(raised)
    /\ log_file' = FALSE
    /\ repeat_timer' = FALSE
    /\ timer_interval' = 0
    /\ repeatCheck' = IF repeat_timer THEN FALSE ELSE repeatCheck
    /\ dsteps' = dsteps \o <<"display">>
                        \o (IF log_file THEN <<"log">> ELSE <<>>)
                        \o (IF repeat_timer THEN <<"timer">> ELSE <<>>)
    /\ UNCHANGED <<unitVars, repeatInterval, last_receive_time, pdata, rxl, sessionRendered, lastRender,
                   uiFields, historyFields, tx_bytes_count, portItems, deviceVars,
                   readerVars, uiRet, queue, closeRaised, budgets>>

\* a disconnect() that leaves the repeat timer running
DisconnectFinish_KeepTimer ==
    /\ ui = "d_rest"
    /\ ui' = uiRet
    /\ \E raised \in BOOLEAN :
          /\ raised => log_file
          /\ appended' = appended \o StopLoggingLines(raised) \o <<"Deconnecte">>
          /\ lf' = StopLoggingCloses(raised)
    /\ log_file' = FALSE
    /\ dsteps' = dsteps \o (IF log_file THEN <<"log">> ELSE <<>>) \o <<"display">>
    /\ UNCHANGED <<unitVars, intervalVars, repeat_timer, repeatCheck, last_receive_time, pdata, rxl,
                   sessionRendered, lastRender,
                   uiFields, historyFields, tx_bytes_count, portItems, deviceVars,
                   readerVars, uiRet, queue, closeRaised, budgets>>

\* stopLogging(); stop the repeat timer; append 'Déconnecté'
DisconnectFinish ==
    /\ ui = "d_rest"
    /\ ui' = uiRet
    /\ \E raised \in BOOLEAN :
          /\ raised => log_file
          /\ appended' = appended \o StopLoggingLines(raised) \o <<"Deconnecte">>
          /\ lf' = StopLoggingCloses(raised)
    /\ log_file' = FALSE
    /\ repeat_timer' = FALSE
    /\ timer_interval' = 0
    /\ repeatCheck' = IF repeat_timer THEN FALSE ELSE repeatCheck
    /\ dsteps' = dsteps \o (IF log_file THEN <<"log">> ELSE <<>>)
                        \o (IF repeat_timer THEN <<"timer">> ELSE <<>>)
                        \o <<"display">>
    /\ UNCHANGED <<unitVars, repeatInterval, last_receive_time, pdata, rxl, sessionRendered, lastRender,
                   uiFields, historyFields, tx_bytes_count, portItems, deviceVars,
                   readerVars, uiRet, queue, closeRaised, budgets>>

\* ---- connect() ----------------------------------------------------------
\* connect(): if self.serial_port and self.serial_port.is_open: self.disconnect()
Connect ==
    /\ ui = "idle"
    /\ IF serial_port # None /\ IsOpen(serial_port)
       THEN DisconnectBegin("c_open", <<>>)
       ELSE NoDisconnect(<<>>) /\ ui' = "c_open"
    /\ UNCHANGED <<unitVars, intervalVars, procVars, serial_port, read_thread, log_file, sendFields, portItems, deviceVars,
                   readerVars, queue, budgets>>

\* toggle_connection(): disconnect() when open, connect() otherwise
ToggleConnection ==
    /\ ui = "idle"
    /\ IF serial_port # None /\ IsOpen(serial_port)
       THEN DisconnectBegin("idle", <<>>)
       ELSE NoDisconnect(<<>>) /\ ui' = "c_open"
    /\ UNCHANGED <<unitVars, intervalVars, procVars, serial_port, read_thread, log_file, sendFields, portItems, deviceVars,
                   readerVars, queue, budgets>>

\* closeEvent(event): if self.serial_port and self.serial_port.is_open:
\* self.disconnect(); the window is then closed
CloseEvent ==
    /\ ui = "idle"
    /\ IF serial_port # None /\ IsOpen(serial_port)
       THEN DisconnectBegin("closed", <<>>)
       ELSE NoDisconnect(<<>>) /\ ui' = "closed"
    /\ UNCHANGED <<unitVars, intervalVars, procVars, serial_port, read_thread, log_file, sendFields, portItems, deviceVars,
                   readerVars, queue, budgets>>

\* ids of Serial/Thread objects nobody refers to any more
FreeIds == {h \in Ids : /\ handle[h] \in {"unused", "closed"}
                        /\ ~Alive(h)
                        /\ serial_port # h /\ read_thread # h
                        /\ \A t \in Ids : rdh[t] # h
                        /\ \A i \in 1..Len(queue) : queue[i].from # h}
NewId == CHOOSE h \in FreeIds : \A g \in FreeIds : h <= g

\* the rest of connect(): reset the counters, serial.Serial(**params), the
\* 'Connecté' line, set the running flag and start the reader thread
ConnectOpen ==
    /\ ui = "c_open"
    /\ ui' = "idle"
    /\ dsteps' = <<>>
    /\ closeRaised' = FALSE
    /\ IF ~portItems
       THEN UNCHANGED <<uiFields, rx_bytes_count, tx_bytes_count, handle, pc, appended,
                        sessionRendered>>
       ELSE /\ rx_bytes_count' = 0
            /\ tx_bytes_count' = 0
            /\ \/ \* serial.Serial raises: showMessage, no session is created
                  UNCHANGED <<uiFields, handle, pc, appended, sessionRendered>>
               \/ /\ devicePresent
                  /\ sessionRendered' = FALSE
                  /\ FreeIds # {}
                  /\ handle' = [handle EXCEPT ![NewId] = "open"]
                  /\ serial_port' = NewId
                  /\ appended' = Append(appended, "Connecte")
                  /\ read_thread_running' = TRUE
                  /\ read_thread' = NewId
                  /\ pc' = [pc EXCEPT ![NewId] = "w_flag"]
    /\ UNCHANGED <<unitVars, intervalVars, last_receive_time, pdata, rxl, lf, lastRender, log_file, repeatCheck, repeat_timer, historyFields, portItems, rxq,
                   devicePresent, error_count, temp_buffer, in_waiting, late, rdh,
                   undelivered, uiRet, queue, budgets>>

\* ---- queued invocations and the port poll --------------------------------
\* the UI event loop delivers the oldest queued invocation
Dispatch ==
    /\ ui = "idle"
    /\ queue # <<>>
    /\ LET req == Head(queue)
       IN  IF req.k = "disc"
           THEN /\ queue' = Tail(queue)
                /\ DisconnectBegin("idle", <<>>)
           ELSE IF req.k = "err"
           THEN /\ queue' = <<Req("disc", req.from)>> \o Tail(queue)
                /\ appended' = Append(appended, "Erreur")
                /\ UNCHANGED <<read_thread_running, ui, uiRet, dsteps, closeRaised>>
           ELSE /\ queue' = Tail(queue)
                /\ appended' = CASE req.k = "rx" -> Append(appended, "RX")
                                  [] req.k = "perr" -> Append(appended, "Erreur de traitement")
                                  [] OTHER -> appended
                /\ UNCHANGED <<read_thread_running, ui, uiRet, dsteps, closeRaised>>
    /\ UNCHANGED <<unitVars, intervalVars, procVars, serial_port, read_thread, log_file, sendFields, portItems, deviceVars,
                   readerVars, budgets>>

\* checkPorts() that only refreshes the port list when the device vanished
CheckPorts_RefreshOnly ==
    /\ ui = "idle"
    /\ portItems' = devicePresent
    /\ NoDisconnect(<<>>)
    /\ UNCHANGED ui
    /\ UNCHANGED <<unitVars, intervalVars, procVars, serial_port, read_thread, log_file, sendFields, deviceVars,
                   readerVars, queue, budgets>>

\* checkPorts(): the connected port vanished -> handleDisconnect(); then
\* if current_ports != port_items: refreshPorts()
CheckPorts ==
    /\ ui = "idle"
    /\ IF serial_port # None /\ ~devicePresent /\ IsOpen(serial_port)
       THEN /\ DisconnectBegin("p_refresh", <<>>)
            /\ UNCHANGED portItems
       ELSE /\ portItems' = devicePresent
            /\ NoDisconnect(<<>>)
            /\ UNCHANGED ui
    /\ UNCHANGED <<unitVars, intervalVars, procVars, serial_port, read_thread, log_file, sendFields, deviceVars,
                   readerVars, queue, budgets>>

\* checkPorts() after handleDisconnect() returned
CheckPortsRefresh ==
    /\ ui = "p_refresh"
    /\ ui' = "idle"
    /\ portItems' = devicePresent
    /\ dsteps' = <<>>
    /\ closeRaised' = FALSE
    /\ UNCHANGED <<unitVars, intervalVars, procVars, uiFields, log_file, sendFields, deviceVars, readerVars, uiRet, queue,
                   appended, budgets>>

\* ---- the device ---------------------------------------------------------
\* the device is unplugged: every open Serial object loses its device
Unplug ==
    /\ devicePresent
    /\ faultBudget > 0
    /\ faultBudget' = faultBudget - 1
    /\ devicePresent' = FALSE
    /\ handle' = [h \in Ids |-> IF handle[h] = "open" THEN "lost" ELSE handle[h]]
    /\ rxq' = <<>>
    /\ UNCHANGED <<unitVars, intervalVars, procVars, uiFields, log_file, sendFields, portItems, readerVars, ui, uiRet, queue,
                   appended, dsteps, closeRaised, rxBudget>>

Plug ==
    /\ ~devicePresent
    /\ devicePresent' = TRUE
    /\ UNCHANGED <<unitVars, intervalVars, procVars, uiFields, log_file, sendFields, portItems, handle, rxq, readerVars, ui,
                   uiRet, queue, appended, dsteps, closeRaised, budgets>>

\* the device sends one byte while a port is open on it
DeviceSend ==
    /\ rxBudget > 0
    /\ \E h \in Ids : handle[h] = "open"
    /\ \E b \in Bytes : rxq' = Append(rxq, b)
    /\ rxBudget' = rxBudget - 1
    /\ UNCHANGED <<unitVars, intervalVars, procVars, uiFields, log_file, sendFields, portItems, handle, devicePresent,
                   readerVars, ui, uiRet, queue, appended, dsteps, closeRaised,
                   faultBudget>>

\* more than timeout_seconds (100 ms) have passed since last_time of thread t
Tick(t) ==
    /\ Alive(t)
    /\ ~late[t]
    /\ late' = [late EXCEPT ![t] = TRUE]
    /\ UNCHANGED <<unitVars, intervalVars, procVars, uiFields, log_file, sendFields, portItems, deviceVars, pc, error_count,
                   temp_buffer, in_waiting, rdh, undelivered, rx_bytes_count, ui, uiRet,
                   queue, appended, dsteps, closeRaised, budgets>>

\* ---- sendData() ---------------------------------------------------------
\* characters that occur in the inputs and their code points
Ord == [c \in {"0", "1", "2", "4", "A", "B", "C", "D", "X", "Y", "Z", "a", " ", "-", ":"} |->
          CASE c = "0" -> 48 [] c = "1" -> 49 [] c = "2" -> 50 [] c = "4" -> 52
            [] c = "A" -> 65 [] c = "B" -> 66 [] c = "C" -> 67 [] c = "D" -> 68
            [] c = "X" -> 88 [] c = "Y" -> 89 [] c = "Z" -> 90 [] c = "a" -> 97
            [] c = " " -> 32 [] c = "-" -> 45 [] c = ":" -> 58]
Chars == DOMAIN Ord \cup {"U+FB01"}

\* the ligature U+FB01, a character of three UTF-8 bytes that str.upper() turns
\* into the two characters 'FI'
Ligature == "U+FB01"

\* the hexadecimal digits '0123456789ABCDEF', their lower case and the value of each
HexChars == <<"0", "1", "2", "3", "4", "5", "6", "7", "8", "9", "A", "B", "C", "D", "E", "F">>
HexLower == <<"0", "1", "2", "3", "4", "5", "6", "7", "8", "9", "a", "b", "c", "d", "e", "f">>
HexVal == [c \in {HexChars[i] : i \in 1..16} \cup {HexLower[i] : i \in 1..16} |->
             (CHOOSE i \in 1..16 : HexChars[i] = c \/ HexLower[i] = c) - 1]
IsHexDigit(c) == c \in {HexChars[i] : i \in 1..16}

\* str.upper(): character by character, a character may become several
RECURSIVE Upper(_)
Upper(text) ==
    IF text = <<>> THEN <<>>
    ELSE (IF Head(text) = Ligature THEN <<"F", "I">>
          ELSE IF Head(text) \in {HexLower[i] : i \in 11..16}
          THEN <<HexChars[CHOOSE i \in 11..16 : HexLower[i] = Head(text)]>>
          ELSE <<Head(text)>>)
         \o Upper(Tail(text))

\* text.encode('utf-8')
RECURSIVE Utf8(_)
Utf8(text) ==
    IF text = <<>> THEN <<>>
    ELSE (IF Head(text) = Ligature THEN <<239, 172, 129>> ELSE <<Ord[Head(text)]>>)
         \o Utf8(Tail(text))

\* ''.join(c for c in text.upper() if c in '0123456789ABCDEF ').replace(' ', '')
CleanHex(text) == SelectSeq(Upper(text), IsHexDigit)

\* bytes.fromhex(hex_text) for an even number of digits of either case
RECURSIVE FromHex(_)
FromHex(digits) ==
    IF Len(digits) < 2 THEN <<>>
    ELSE <<16 * HexVal[digits[1]] + HexVal[digits[2]]>> \o FromHex(Tail(Tail(digits)))

\* bytes.fromhex raises ValueError on a character that is no hex digit and on
\* an odd number of digits
FromHexRaises(digits) ==
    \/ Len(digits) % 2 # 0
    \/ \E i \in 1..Len(digits) : digits[i] \notin DOMAIN HexVal

\* eol_map of sendData
EolTypes == {"Aucun", "NL", "CR", "NL+CR"}
EolBytes(eol_type) ==
    CASE eol_type = "Aucun" -> <<>>
      [] eol_type = "NL" -> <<NL>>
      [] eol_type = "CR" -> <<CR>>
      [] eol_type = "NL+CR" -> <<CR, NL>>

\* _prepare_data_to_send(text, format_type, eol): the bytes, whether ValueError
\* is raised, whether the odd-length warning line is appended
PrepareDataToSend(text, format_type, eol) ==
    IF format_type = "ASCII"
    THEN [raised |-> FALSE, warned |-> FALSE, data |-> Utf8(text) \o eol]
    ELSE LET hex_text == CleanHex(text)
             odd == Len(hex_text) % 2 # 0
         IN  IF hex_text = <<>>
             THEN [raised |-> TRUE, warned |-> FALSE, data |-> <<>>]
             ELSE LET padded == IF odd THEN Append(hex_text, "0") ELSE hex_text
                  IN  IF FromHexRaises(padded)
                      THEN [raised |-> TRUE, warned |-> odd, data |-> <<>>]
                      ELSE [raised |-> FALSE, warned |-> odd, data |-> FromHex(padded) \o eol]

\* a history that drops the new entry, not the oldest, when it is full
Recorded_DropNewest(history, text) ==
    IF \E i \in 1..Len(history) : history[i] = text THEN history
    ELSE IF Len(history) + 1 > 100 THEN history
    ELSE Append(history, text)

\* if text not in self.command_history: append, keep the last 100
Recorded(history, text) ==
    IF \E i \in 1..Len(history) : history[i] = text THEN history
    ELSE IF Len(history) + 1 > 100 THEN Tail(Append(history, text))
    ELSE Append(history, text)

\* the texts of the interval field and int(text) of those that are integers
IntervalTexts == {"1000", "500", "abc"}
IntervalValue == [text \in {"1000", "500"} |-> IF text = "1000" THEN 1000 ELSE 500]

\* sendData(), from the Enter key, the button or the repeat timer
SendData ==
    /\ ui = "idle"
    /\ dsteps' = <<>>
    /\ closeRaised' = FALSE
    /\ IF serial_port = None \/ ~IsOpen(serial_port)
       THEN /\ appended' = <<"Pas de connexion">>
            /\ UNCHANGED <<sendFields, timer_interval>>
       ELSE IF inputField = <<>>
       THEN /\ appended' = <<>>
            /\ UNCHANGED <<sendFields, timer_interval>>
       ELSE /\ command_history' = Recorded(command_history, inputField)
            /\ history_index' = Len(command_history')
            /\ \E format_type \in {"ASCII", "HEX"}, eol_type \in EolTypes :
                 LET prep == PrepareDataToSend(inputField, format_type, EolBytes(eol_type))
                     warning == IF prep.warned THEN <<"Avertissement">> ELSE <<>>
                     interval_ok == repeatInterval \in DOMAIN IntervalValue
                 IN  IF prep.raised \/ handle[serial_port] # "open"
                     THEN \* ValueError, or serial_port.write raises: `except Exception`
                          /\ appended' = (IF prep.raised THEN <<>> ELSE warning)
                                         \o <<"Erreur d'envoi">>
                          /\ UNCHANGED <<tx_bytes_count, repeatCheck, repeat_timer, inputField,
                                         timer_interval>>
                     ELSE /\ tx_bytes_count + Len(prep.data) <= MaxTx
                          /\ tx_bytes_count' = tx_bytes_count + Len(prep.data)
                          \* _handle_repeat_send(text)
                          /\ IF repeatCheck
                             THEN /\ repeat_timer' = (repeat_timer \/ interval_ok)
                                  /\ timer_interval' = IF ~repeat_timer /\ interval_ok
                                                       THEN IntervalValue[repeatInterval]
                                                       ELSE timer_interval
                                  /\ appended' = warning \o <<"TX">>
                                        \o (IF interval_ok THEN <<>> ELSE <<"Intervalle non valide">>)
                                  /\ UNCHANGED inputField
                             ELSE /\ repeat_timer' = FALSE
                                  /\ timer_interval' = 0
                                  /\ inputField' = <<>>
                                  /\ appended' = warning \o <<"TX">>
                          /\ UNCHANGED repeatCheck
    /\ UNCHANGED <<unitVars, repeatInterval, procVars, uiFields, log_file, portItems, deviceVars,
                   readerVars, ui, uiRet, queue, budgets>>

\* the user types a command into the input field
Inputs == {<<"4", "1">>}
TypeInput ==
    /\ ui = "idle"
    /\ \E text \in Inputs : inputField' = text
    /\ inputField' # inputField
    /\ UNCHANGED <<unitVars, intervalVars, procVars, uiFields, log_file, rx_bytes_count, tx_bytes_count, command_history,
                   history_index, repeatCheck, repeat_timer, portItems, deviceVars,
                   pc, error_count, temp_buffer, in_waiting, late, rdh, ui, uiRet, queue,
                   appended, dsteps, undelivered, closeRaised, budgets>>

\* the user ticks or unticks the 'Répéter' box
ToggleRepeatCheck ==
    /\ ui = "idle"
    /\ repeatCheck' = ~repeatCheck
    /\ UNCHANGED <<unitVars, intervalVars, procVars, uiFields, log_file, rx_bytes_count, tx_bytes_count, historyFields,
                   repeat_timer, portItems, deviceVars,
                   pc, error_count, temp_buffer, in_waiting, late, rdh, ui, uiRet, queue,
                   appended, dsteps, undelivered, closeRaised, budgets>>

\* the user edits the interval field
TypeInterval ==
    /\ ui = "idle"
    /\ \E text \in IntervalTexts : repeatInterval' = text
    /\ repeatInterval' # repeatInterval
    /\ UNCHANGED <<unitVars, timer_interval, procVars, uiFields, log_file, sendFields, portItems,
                   deviceVars, readerVars, ui, uiRet, queue, appended, dsteps, closeRaised,
                   budgets>>

\* toggle_logging(): stopLogging() when a log is open, startLogging() otherwise
\* (the file dialog may be cancelled and open() may raise: no log is opened)
ToggleLogging ==
    /\ ui = "idle"
    /\ dsteps' = <<>>
    /\ closeRaised' = FALSE
    /\ IF log_file
       THEN /\ log_file' = FALSE
            /\ \E raised \in BOOLEAN :
                  /\ appended' = StopLoggingLines(raised)
                  /\ lf' = StopLoggingCloses(raised)
       ELSE /\ \/ log_file' = TRUE /\ appended' = <<"Enregistrement demarre">>
               \/ log_file' = FALSE /\ appended' = <<>>
            /\ UNCHANGED lf
    /\ UNCHANGED <<unitVars, intervalVars, last_receive_time, pdata, rxl, sessionRendered, lastRender, uiFields, sendFields, portItems, deviceVars, readerVars, ui, uiRet,
                   queue, budgets>>

\* ---- readData(): the reader thread ---------------------------------------
\* Terminal never assigns self.rx_buffer (__init__ sets no such attribute), so
\* self.rx_buffer.extend(data) raises AttributeError
HasRxBuffer == FALSE

\* except handlers of readData that count the error: error_count += 1, then
\* either _handle_serial_error("Arrêt après ...") and break, or
\* _handle_serial_error("Erreur ...") and the loop goes on
ExceptCounted(t) ==
    /\ Len(queue) < MaxQueue
    /\ error_count' = [error_count EXCEPT ![t] = @ + 1]
    /\ queue' = HandleSerialError(t)
    /\ pc' = [pc EXCEPT ![t] = IF error_count[t] + 1 >= max_errors THEN "exit" ELSE "w_flag"]

\* processReceivedData(data) on the reader thread: the rx counter, a queued
\* updateStatusBar and the queued display line
ProcessReceivedData(t, data) ==
    /\ Len(queue) < MaxQueue
    /\ rx_bytes_count' = rx_bytes_count + Len(data)
    /\ queue' = Append(queue, Req("rx", t))

\* while self.read_thread_running ...
ReadWhileFlag(t) ==
    /\ pc[t] = "w_flag"
    /\ pc' = [pc EXCEPT ![t] = IF read_thread_running THEN "w_port" ELSE "exit"]
    /\ UNCHANGED <<unitVars, intervalVars, procVars, uiFields, log_file, sendFields, portItems, deviceVars, error_count,
                   temp_buffer, in_waiting, late, rdh, undelivered, rx_bytes_count,
                   ui, uiRet, queue, appended, dsteps, closeRaised, budgets>>

\* ... and self.serial_port ...
ReadWhilePort(t) ==
    /\ pc[t] = "w_port"
    /\ pc' = [pc EXCEPT ![t] = IF serial_port # None THEN "w_open" ELSE "exit"]
    /\ UNCHANGED <<unitVars, intervalVars, procVars, uiFields, log_file, sendFields, portItems, deviceVars, error_count,
                   temp_buffer, in_waiting, late, rdh, undelivered, rx_bytes_count,
                   ui, uiRet, queue, appended, dsteps, closeRaised, budgets>>

\* ... and self.serial_port.is_open: the attribute is loaded again, outside any
\* try block; on None the AttributeError ends the thread
ReadWhileOpen(t) ==
    /\ pc[t] = "w_open"
    /\ IF serial_port = None
       THEN /\ pc' = [pc EXCEPT ![t] = "crashed"]
            /\ error_count' = [error_count EXCEPT ![t] = 0]
            /\ temp_buffer' = [temp_buffer EXCEPT ![t] = <<>>]
            /\ late' = [late EXCEPT ![t] = FALSE]
            /\ undelivered' = [undelivered EXCEPT ![t] = <<>>]
       ELSE /\ pc' = [pc EXCEPT ![t] = IF IsOpen(serial_port) THEN "t_port" ELSE "exit"]
            /\ UNCHANGED <<error_count, temp_buffer, late, undelivered>>
    /\ UNCHANGED <<unitVars, intervalVars, procVars, uiFields, log_file, sendFields, portItems, deviceVars,
                   in_waiting, rdh, rx_bytes_count,
                   ui, uiRet, queue, appended, dsteps, closeRaised, budgets>>

\* try: if not self.serial_port ...: break
ReadTryPort(t) ==
    /\ pc[t] = "t_port"
    /\ pc' = [pc EXCEPT ![t] = IF serial_port = None THEN "exit" ELSE "t_open"]
    /\ UNCHANGED <<unitVars, intervalVars, procVars, uiFields, log_file, sendFields, portItems, deviceVars, error_count,
                   temp_buffer, in_waiting, late, rdh, undelivered, rx_bytes_count,
                   ui, uiRet, queue, appended, dsteps, closeRaised, budgets>>

\* ... or not self.serial_port.is_open: break (AttributeError on None is caught
\* by `except Exception`)
ReadTryOpen(t) ==
    /\ pc[t] = "t_open"
    /\ IF serial_port = None
       THEN ExceptCounted(t)
       ELSE /\ pc' = [pc EXCEPT ![t] = IF IsOpen(serial_port) THEN "inw" ELSE "exit"]
            /\ UNCHANGED <<error_count, queue>>
    /\ UNCHANGED <<unitVars, intervalVars, procVars, uiFields, log_file, sendFields, portItems, deviceVars,
                   temp_buffer, in_waiting, late, rdh, undelivered, rx_bytes_count,
                   ui, uiRet, appended, dsteps, closeRaised, budgets>>

\* in_waiting = self.serial_port.in_waiting; a SerialException/IOError/OSError
\* posts "Port déconnecté ou inaccessible" and breaks
ReadInWaiting(t) ==
    /\ pc[t] = "inw"
    /\ IF serial_port = None
       THEN ExceptCounted(t) /\ UNCHANGED in_waiting
       ELSE IF handle[serial_port] # "open"
       THEN /\ Len(queue) < MaxQueue
            /\ queue' = HandleSerialError(t)
            /\ pc' = [pc EXCEPT ![t] = "exit"]
            /\ UNCHANGED <<error_count, in_waiting>>
       ELSE /\ in_waiting' = [in_waiting EXCEPT ![t] = Len(rxq)]
            /\ pc' = [pc EXCEPT ![t] = IF Len(rxq) > 0 THEN "read" ELSE "sleep"]
            /\ UNCHANGED <<error_count, queue>>
    /\ UNCHANGED <<unitVars, intervalVars, procVars, uiFields, log_file, sendFields, portItems, deviceVars,
                   temp_buffer, late, rdh, undelivered, rx_bytes_count,
                   ui, uiRet, appended, dsteps, closeRaised, budgets>>

\* data = self.serial_port.read(in_waiting): the call is entered; on None
\* (AttributeError) or on a closed port (PortNotOpenError) it raises at once
ReadBegin(t) ==
    /\ pc[t] = "read"
    /\ IF serial_port = None \/ handle[serial_port] = "closed"
       THEN ExceptCounted(t) /\ in_waiting' = [in_waiting EXCEPT ![t] = 0] /\ UNCHANGED rdh
       ELSE /\ rdh' = [rdh EXCEPT ![t] = serial_port]
            /\ pc' = [pc EXCEPT ![t] = "reading"]
            /\ UNCHANGED <<error_count, queue, in_waiting>>
    /\ UNCHANGED <<unitVars, intervalVars, procVars, uiFields, log_file, sendFields, portItems, deviceVars,
                   temp_buffer, late, undelivered, rx_bytes_count,
                   ui, uiRet, appended, dsteps, closeRaised, budgets>>

\* the read returns or raises, and the rest of the `if in_waiting > 0` branch
ReadEnd(t) ==
    /\ pc[t] = "reading"
    /\ rdh' = [rdh EXCEPT ![t] = None]
    /\ in_waiting' = [in_waiting EXCEPT ![t] = 0]
    /\ LET h == rdh[t]
           n == Min(in_waiting[t], Len(rxq))
           data == SubSeq(rxq, 1, n)
           buf == temp_buffer[t] \o data
       IN  \/ \* the port was closed or lost: SerialException/OSError
              /\ handle[h] # "open"
              /\ ExceptCounted(t)
              /\ UNCHANGED <<rxq, temp_buffer, late, undelivered, rx_bytes_count,
                             faultBudget>>
           \/ \* close() ran during the read: the read may also return no byte
              /\ handle[h] = "closed"
              /\ error_count' = [error_count EXCEPT ![t] = 0]
              /\ pc' = [pc EXCEPT ![t] = "w_flag"]
              /\ UNCHANGED <<rxq, temp_buffer, late, undelivered, rx_bytes_count, queue,
                             faultBudget>>
           \/ \* a transient read error
              /\ handle[h] = "open"
              /\ faultBudget > 0
              /\ faultBudget' = faultBudget - 1
              /\ ExceptCounted(t)
              /\ UNCHANGED <<rxq, temp_buffer, late, undelivered, rx_bytes_count>>
           \/ /\ handle[h] = "open"
              /\ rxq' = SubSeq(rxq, n + 1, Len(rxq))
              /\ UNCHANGED faultBudget
              /\ IF data = <<>>
                 THEN \* nothing read: error_count = 0
                      /\ error_count' = [error_count EXCEPT ![t] = 0]
                      /\ pc' = [pc EXCEPT ![t] = "w_flag"]
                      /\ UNCHANGED <<temp_buffer, late, undelivered, rx_bytes_count, queue>>
                 ELSE IF ~HasRxBuffer
                 THEN \* self.rx_buffer.extend(data): AttributeError, `except Exception`
                      /\ ExceptCounted(t)
                      /\ undelivered' = [undelivered EXCEPT ![t] = @ \o data]
                      /\ UNCHANGED <<temp_buffer, late, rx_bytes_count>>
                 ELSE IF Contains(buf, NL) \/ late[t]
                 THEN /\ ProcessReceivedData(t, buf)
                      /\ temp_buffer' = [temp_buffer EXCEPT ![t] = <<>>]
                      /\ late' = [late EXCEPT ![t] = FALSE]
                      /\ undelivered' = [undelivered EXCEPT ![t] = <<>>]
                      /\ error_count' = [error_count EXCEPT ![t] = 0]
                      /\ pc' = [pc EXCEPT ![t] = "w_flag"]
                 ELSE /\ temp_buffer' = [temp_buffer EXCEPT ![t] = buf]
                      /\ undelivered' = [undelivered EXCEPT ![t] = @ \o data]
                      /\ error_count' = [error_count EXCEPT ![t] = 0]
                      /\ pc' = [pc EXCEPT ![t] = "w_flag"]
                      /\ UNCHANGED <<late, rx_bytes_count, queue>>
    /\ UNCHANGED <<unitVars, intervalVars, procVars, uiFields, log_file, sendFields, portItems, handle, devicePresent,
                   ui, uiRet, appended, dsteps, closeRaised, rxBudget>>

\* else: threading.Event().wait(thread_sleep), then the timeout test on temp_buffer
ReadIdle(t) ==
    /\ pc[t] = "sleep"
    /\ pc' = [pc EXCEPT ![t] = "w_flag"]
    /\ IF temp_buffer[t] # <<>> /\ late[t]
       THEN /\ ProcessReceivedData(t, temp_buffer[t])
            /\ temp_buffer' = [temp_buffer EXCEPT ![t] = <<>>]
            /\ undelivered' = [undelivered EXCEPT ![t] = <<>>]
            /\ late' = [late EXCEPT ![t] = FALSE]
       ELSE UNCHANGED <<temp_buffer, undelivered, late, rx_bytes_count, queue>>
    /\ UNCHANGED <<unitVars, intervalVars, procVars, uiFields, log_file, sendFields, portItems, deviceVars, error_count,
                   in_waiting, rdh, ui, uiRet, appended, dsteps, closeRaised, budgets>>

\* readData returns: the thread ends and its locals are gone
ReadReturn(t) ==
    /\ pc[t] = "exit"
    /\ pc' = [pc EXCEPT ![t] = "done"]
    /\ error_count' = [error_count EXCEPT ![t] = 0]
    /\ temp_buffer' = [temp_buffer EXCEPT ![t] = <<>>]
    /\ late' = [late EXCEPT ![t] = FALSE]
    /\ undelivered' = [undelivered EXCEPT ![t] = <<>>]
    /\ UNCHANGED <<unitVars, intervalVars, procVars, uiFields, log_file, sendFields, portItems, deviceVars, in_waiting, rdh,
                   rx_bytes_count, ui, uiRet, queue, appended, dsteps, closeRaised,
                   budgets>>

Reader(t) ==
    \/ ReadWhileFlag(t)
    \/ ReadWhilePort(t)
    \/ ReadWhileOpen(t)
    \/ ReadTryPort(t)
    \/ ReadTryOpen(t)
    \/ ReadInWaiting(t)
    \/ ReadBegin(t)
    \/ ReadEnd(t)
    \/ ReadIdle(t)
    \/ ReadReturn(t)

Next ==
    \/ Connect
    \/ ToggleConnection
    \/ ConnectOpen
    \/ DisconnectCheckThread
    \/ DisconnectJoined
    \/ DisconnectJoinTimeout
    \/ DisconnectClose
    \/ DisconnectNull
    \/ DisconnectFinish
    \/ Dispatch
    \/ CheckPorts
    \/ CheckPortsRefresh
    \/ Unplug
    \/ Plug
    \/ DeviceSend
    \/ \E t \in Ids : Tick(t)
    \/ \E t \in Ids : Reader(t)

Spec == Init /\ [][Next]_vars

\* readData on a port whose device sends nothing: in_waiting is always 0 and
\* read() is never entered
ReaderSilent(t) ==
    \/ ReadWhileFlag(t)
    \/ ReadWhilePort(t)
    \/ ReadWhileOpen(t)
    \/ ReadTryPort(t)
    \/ ReadTryOpen(t)
    \/ ReadInWaiting(t)
    \/ ReadIdle(t)
    \/ ReadReturn(t)

\* the session driven from the UI (send, repeat, logging) with a silent device
NextSession ==
    \/ Connect
    \/ ToggleConnection
    \/ ConnectOpen
    \/ DisconnectCheckThread
    \/ DisconnectJoined
    \/ DisconnectJoinTimeout
    \/ DisconnectClose
    \/ DisconnectNull
    \/ DisconnectFinish
    \/ Dispatch
    \/ CheckPorts
    \/ CheckPortsRefresh
    \/ Unplug
    \/ Plug
    \/ SendData
    \/ TypeInput
    \/ ToggleRepeatCheck
    \/ ToggleLogging
    \/ CloseEvent
    \/ \E t \in Ids : ReaderSilent(t)

SpecSession == Init /\ [][NextSession]_vars

\* ---- the encoding functions on their own -----------------------------------
\* format_data_as_hex(data) and the HEX display of processReceivedData:
\* ' '.join(f'{b:02X}' for b in data)
RECURSIVE FormatDataAsHex(_)
FormatDataAsHex(data) ==
    IF data = <<>> THEN <<>>
    ELSE <<HexChars[(Head(data) \div 16) + 1], HexChars[(Head(data) % 16) + 1]>>
         \o (IF Tail(data) = <<>> THEN <<>> ELSE <<" ">> \o FormatDataAsHex(Tail(data)))

\* u in '0123456789ABCDEF' for a string u: the substring test
IsSubstring(u, str) ==
    \E k \in 1..(Len(str) + 1) :
        /\ k + Len(u) - 1 <= Len(str)
        /\ \A j \in 1..Len(u) : str[k + j - 1] = u[j]

\* ''.join(c for c in hex_string if c.upper() in '0123456789ABCDEF'): the
\* characters are kept as written
RECURSIVE CleanKeepCase(_)
CleanKeepCase(hex_string) ==
    IF hex_string = <<>> THEN <<>>
    ELSE (IF IsSubstring(Upper(<<Head(hex_string)>>), HexChars) THEN <<Head(hex_string)>> ELSE <<>>)
         \o CleanKeepCase(Tail(hex_string))

\* a parse_hex_string that leaves an odd digit count to bytes.fromhex
ParseHexString_NoPad(hex_string) ==
    LET clean_hex == CleanKeepCase(hex_string)
    IN  IF FromHexRaises(clean_hex) THEN [raised |-> TRUE, data |-> <<>>]
        ELSE [raised |-> FALSE, data |-> FromHex(clean_hex)]

\* parse_hex_string(hex_string): the bytes, or the ValueError of bytes.fromhex
ParseHexString(hex_string) ==
    LET clean_hex == CleanKeepCase(hex_string)
        padded == IF Len(clean_hex) % 2 # 0 THEN Append(clean_hex, "0") ELSE clean_hex
    IN  IF FromHexRaises(padded) THEN [raised |-> TRUE, data |-> <<>>]
        ELSE [raised |-> FALSE, data |-> FromHex(padded)]

\* the inputs: every text of at most MaxLen characters over Alphabet, and the
\* two strings of test_parse_hex_string
MaxLen == 3
Alphabet == {"0", "1", "4", "A", "Z", "a", " ", Ligature}
Texts == UNION {[1..n -> Alphabet] : n \in 0..MaxLen}
MixedSeparators == <<"0", "1", "-", "0", "2", ":", "A", "B", " ", "C", "D", " ", "X", "Y", "Z">>
OddDigits == <<"0", "1", " ", "0", "2", " ", "A">>

InitHex ==
    /\ InitTerminal
    /\ rxBudget = MaxRx
    /\ faultBudget = MaxFaults
    /\ arg \in [text : Texts \cup {MixedSeparators, OddDigits},
                format_type : {"ASCII", "HEX"},
                eol_type : EolTypes]
    /\ res = [fn |-> "none", out |-> <<>>]

\* data = self._prepare_data_to_send(text, format_type, eol_map[eol_type])
CallPrepareDataToSend ==
    /\ res.fn = "none"
    /\ res' = [fn |-> "prepare",
               out |-> PrepareDataToSend(arg.text, arg.format_type, EolBytes(arg.eol_type))]
    /\ UNCHANGED <<arg, intervalVars, procVars, uiFields, log_file, sendFields, portItems, deviceVars,
                   readerVars, ui, uiRet, queue, appended, dsteps, closeRaised, budgets>>

\* the bytes that were sent, displayed in HEX format
RenderHex ==
    /\ res.fn = "prepare"
    /\ ~res.out.raised
    /\ res' = [fn |-> "render", out |-> FormatDataAsHex(res.out.data)]
    /\ UNCHANGED <<arg, intervalVars, procVars, uiFields, log_file, sendFields, portItems, deviceVars,
                   readerVars, ui, uiRet, queue, appended, dsteps, closeRaised, budgets>>

\* parse_hex_string(hex_string)
CallParseHexString ==
    /\ res.fn = "none"
    /\ res' = [fn |-> "parse", out |-> ParseHexString(arg.text)]
    /\ UNCHANGED <<arg, intervalVars, procVars, uiFields, log_file, sendFields, portItems, deviceVars,
                   readerVars, ui, uiRet, queue, appended, dsteps, closeRaised, budgets>>

\* format_data_as_hex(parse_hex_string(hex_string))
CallFormatDataAsHex ==
    /\ res.fn = "parse"
    /\ ~res.out.raised
    /\ res' = [fn |-> "format", out |-> FormatDataAsHex(res.out.data)]
    /\ UNCHANGED <<arg, intervalVars, procVars, uiFields, log_file, sendFields, portItems, deviceVars,
                   readerVars, ui, uiRet, queue, appended, dsteps, closeRaised, budgets>>

NextHex ==
    \/ CallPrepareDataToSend
    \/ RenderHex
    \/ CallParseHexString
    \/ CallFormatDataAsHex

SpecHex == InitHex /\ [][NextHex]_vars

\* ---- processReceivedData(data) on its own ----------------------------------
\* texts are sequences of code points

\* _decode_data(data): UTF-8 with errors='replace'; a byte that is no ASCII
\* character becomes U+FFFD
DecodeData(data) == [i \in 1..Len(data) |-> IF data[i] < 128 THEN data[i] ELSE 65533]

\* ' '.join(f'{b:02X}' for b in data) as code points
HexText(data) ==
    LET hex == FormatDataAsHex(data)
    IN  [i \in 1..Len(hex) |->
            IF hex[i] = " " THEN 32
            ELSE IF HexVal[hex[i]] < 10 THEN 48 + HexVal[hex[i]] ELSE 55 + HexVal[hex[i]]]

\* display_text of processReceivedData for the three display formats
DisplayText(data, display_format) ==
    CASE display_format = "ASCII" -> DecodeData(data)
      [] display_format = "HEX" -> HexText(data)
      [] OTHER -> DecodeData(data) \o <<32, 91>> \o HexText(data) \o <<93>>

\* the text of datetime.now().strftime('%H:%M:%S.%f')[:-3] at some instant,
\* '12:00:00.000', and of f"+{ms:.1f}ms" for some delay, '+5.0ms'
NowText == <<49, 50, 58, 48, 48, 58, 48, 48, 46, 48, 48, 48>>
DeltaText == <<43, 53, 46, 48, 109, 115>>

\* _add_timestamp(text): the delay is shown when showTimingCheck is checked and
\* last_receive_time is set
ShowsDelta(timestamps, timing) == timestamps /\ timing /\ last_receive_time
AddTimestamp(text, timestamps, timing) ==
    IF ~timestamps THEN text
    ELSE IF ShowsDelta(timestamps, timing)
    THEN <<91>> \o NowText \o <<32>> \o DeltaText \o <<93, 32>> \o text
    ELSE <<91>> \o NowText \o <<93, 32>> \o text

\* the filter patterns: none, 'ERR', and '(' which re.search rejects
PatternERR == <<69, 82, 82>>
Patterns == {<<>>, PatternERR, <<40>>}

\* _apply_filter(text): re.search of a literal pattern is the substring test;
\* re.error gives True
ApplyFilter(text, enabled, pattern) ==
    IF ~enabled \/ pattern = <<>> THEN TRUE
    ELSE IF pattern = <<40>> THEN TRUE
    ELSE IsSubstring(pattern, text)

\* the frames 'OK\n' and 'ERR: timeout\n'
FrameOK == <<79, 75, 10>>
FrameERR == <<69, 82, 82, 58, 32, 116, 105, 109, 101, 111, 117, 116, 10>>
Frames == {FrameOK, FrameERR}

\* self.processReceivedData(bytes(temp_buffer)) is called by the reader thread,
\* as at the idle flush of readData, with a frame
ProcCall(t) ==
    /\ pc[t] = "sleep"
    /\ rxBudget > 0
    /\ rxBudget' = rxBudget - 1
    /\ \E data \in Frames : pdata' = [pdata EXCEPT ![t] = data]
    /\ pc' = [pc EXCEPT ![t] = "p_load"]
    /\ UNCHANGED <<unitVars, intervalVars, last_receive_time, rxl, lf, sessionRendered, lastRender,
                   uiFields, log_file, sendFields, portItems, deviceVars, error_count,
                   temp_buffer, in_waiting, late, rdh, undelivered, rx_bytes_count,
                   ui, uiRet, queue, appended, dsteps, closeRaised, faultBudget>>

\* self.rx_bytes_count += len(data): the load
ProcLoad(t) ==
    /\ pc[t] = "p_load"
    /\ rxl' = [rxl EXCEPT ![t] = rx_bytes_count]
    /\ pc' = [pc EXCEPT ![t] = "p_store"]
    /\ UNCHANGED <<unitVars, intervalVars, last_receive_time, pdata, lf, sessionRendered, lastRender,
                   uiFields, log_file, sendFields, portItems, deviceVars, error_count,
                   temp_buffer, in_waiting, late, rdh, undelivered, rx_bytes_count,
                   ui, uiRet, queue, appended, dsteps, closeRaised, budgets>>

\* the store of `+=`, the queued updateStatusBar, then the display text, the
\* timestamp and the filter; a filtered frame returns, another one is posted
ProcStore(t) ==
    /\ pc[t] = "p_store"
    /\ Len(queue) < MaxQueue
    /\ rx_bytes_count' = rxl[t] + Len(pdata[t])
    /\ rxl' = [rxl EXCEPT ![t] = 0]
    /\ \E display_format \in {"ASCII", "HEX", "Les deux"}, timestamps \in BOOLEAN,
          timing \in BOOLEAN, enabled \in BOOLEAN, pattern \in Patterns :
          LET display_text == AddTimestamp(DisplayText(pdata[t], display_format),
                                           timestamps, timing)
              shown == ApplyFilter(display_text, enabled, pattern)
          IN  /\ last_receive_time' = (last_receive_time \/ timestamps)
              /\ lastRender' = IF ~timestamps THEN "plain"
                               ELSE IF ShowsDelta(timestamps, timing) THEN "delta"
                               ELSE IF timing THEN "first"
                               ELSE "stamp"
              /\ sessionRendered' = TRUE
              /\ queue' = Append(queue, Req(IF shown THEN "rx" ELSE "status", t))
              /\ pc' = [pc EXCEPT ![t] = IF shown THEN "p_logtest" ELSE "w_flag"]
              /\ pdata' = [pdata EXCEPT ![t] = IF shown THEN @ ELSE <<>>]
    /\ UNCHANGED <<unitVars, intervalVars, lf, uiFields, log_file, sendFields, portItems, deviceVars,
                   error_count, temp_buffer, in_waiting, late, rdh, undelivered,
                   ui, uiRet, appended, dsteps, closeRaised, budgets>>

\* if self.log_file:
ProcLogTest(t) ==
    /\ pc[t] = "p_logtest"
    /\ pc' = [pc EXCEPT ![t] = IF log_file THEN "p_logload" ELSE "w_flag"]
    /\ pdata' = [pdata EXCEPT ![t] = IF log_file THEN @ ELSE <<>>]
    /\ UNCHANGED <<unitVars, intervalVars, last_receive_time, rxl, lf, sessionRendered, lastRender,
                   uiFields, log_file, sendFields, portItems, deviceVars, error_count,
                   temp_buffer, in_waiting, late, rdh, undelivered, rx_bytes_count,
                   ui, uiRet, queue, appended, dsteps, closeRaised, budgets>>

\* an exception in the try body of processReceivedData: `except Exception` posts
\* the '[Erreur de traitement]' line and the method returns
ProcExcept(t) ==
    /\ Len(queue) < MaxQueue
    /\ queue' = Append(queue, Req("perr", t))
    /\ pc' = [pc EXCEPT ![t] = "w_flag"]
    /\ pdata' = [pdata EXCEPT ![t] = <<>>]
    /\ lf' = [lf EXCEPT ![t] = "none"]

\* self.log_file.write: the attribute is loaded again; None has no write
ProcLogLoad(t) ==
    /\ pc[t] = "p_logload"
    /\ IF ~log_file
       THEN ProcExcept(t)
       ELSE /\ lf' = [lf EXCEPT ![t] = "open"]
            /\ pc' = [pc EXCEPT ![t] = "p_write"]
            /\ UNCHANGED <<queue, pdata>>
    /\ UNCHANGED <<unitVars, intervalVars, last_receive_time, rxl, sessionRendered, lastRender,
                   uiFields, log_file, sendFields, portItems, deviceVars, error_count,
                   temp_buffer, in_waiting, late, rdh, undelivered, rx_bytes_count,
                   ui, uiRet, appended, dsteps, closeRaised, budgets>>

\* write(...) on the loaded file object: ValueError when it has been closed
ProcLogWrite(t) ==
    /\ pc[t] = "p_write"
    /\ IF lf[t] = "closed"
       THEN ProcExcept(t)
       ELSE /\ pc' = [pc EXCEPT ![t] = "p_flush"]
            /\ UNCHANGED <<queue, pdata, lf>>
    /\ UNCHANGED <<unitVars, intervalVars, last_receive_time, rxl, sessionRendered, lastRender,
                   uiFields, log_file, sendFields, portItems, deviceVars, error_count,
                   temp_buffer, in_waiting, late, rdh, undelivered, rx_bytes_count,
                   ui, uiRet, appended, dsteps, closeRaised, budgets>>

\* self.log_file.flush(): the attribute is loaded a third time; then
\* processReceivedData returns
ProcLogFlush(t) ==
    /\ pc[t] = "p_flush"
    /\ IF ~log_file \/ lf[t] = "closed"
       THEN ProcExcept(t)
       ELSE /\ pc' = [pc EXCEPT ![t] = "w_flag"]
            /\ pdata' = [pdata EXCEPT ![t] = <<>>]
            /\ lf' = [lf EXCEPT ![t] = "none"]
            /\ UNCHANGED queue
    /\ UNCHANGED <<unitVars, intervalVars, last_receive_time, rxl, sessionRendered, lastRender,
                   uiFields, log_file, sendFields, portItems, deviceVars, error_count,
                   temp_buffer, in_waiting, late, rdh, undelivered, rx_bytes_count,
                   ui, uiRet, appended, dsteps, closeRaised, budgets>>

Proc(t) ==
    \/ ProcCall(t)
    \/ ProcLoad(t)
    \/ ProcStore(t)
    \/ ProcLogTest(t)
    \/ ProcLogLoad(t)
    \/ ProcLogWrite(t)
    \/ ProcLogFlush(t)

\* no fault is injected: every join(0.5) ends with the thread and no close() raises
InitProcess ==
    /\ InitTerminal
    /\ rxBudget = MaxRx
    /\ faultBudget = 0
    /\ arg = "none"
    /\ res = "none"

\* sessions and logging driven from the UI while the reader thread of a silent
\* device is given frames to process
NextProcess ==
    \/ Connect
    \/ ToggleConnection
    \/ ConnectOpen
    \/ DisconnectCheckThread
    \/ DisconnectJoined
    \/ DisconnectClose
    \/ DisconnectNull
    \/ DisconnectFinish
    \/ Dispatch
    \/ ToggleLogging
    \/ \E t \in Ids : ReaderSilent(t)
    \/ \E t \in Ids : Proc(t)

SpecProcess == InitProcess /\ [][NextProcess]_vars

\* sending and the repeat settings driven from the UI, without faults
NextRepeat ==
    \/ Connect
    \/ ToggleConnection
    \/ ConnectOpen
    \/ DisconnectCheckThread
    \/ DisconnectJoined
    \/ DisconnectClose
    \/ DisconnectNull
    \/ DisconnectFinish
    \/ SendData
    \/ TypeInput
    \/ ToggleRepeatCheck
    \/ TypeInterval
    \/ \E t \in Ids : ReaderSilent(t)

SpecRepeat == InitProcess /\ [][NextRepeat]_vars

\* ---- the command history on its own ----------------------------------------
\* the commands are numbered in the order in which they are first sent; arg is
\* the number of distinct commands sent so far
MaxCommands == 150

InitHistory ==
    /\ InitTerminal
    /\ rxBudget = MaxRx
    /\ faultBudget = MaxFaults
    /\ arg = 0
    /\ res = "none"

\* the history lines of sendData for a command never sent before, for the last
\* command again, or for the first command again
RecordCommand ==
    /\ \E text \in {arg + 1, arg, 1} :
          /\ text \in 1..MaxCommands
          /\ command_history' = Recorded(command_history, text)
          /\ arg' = IF text > arg THEN text ELSE arg
    /\ history_index' = Len(command_history')
    /\ UNCHANGED <<res, intervalVars, procVars, uiFields, log_file, inputField, repeatCheck,
                   repeat_timer, tx_bytes_count, portItems, deviceVars, readerVars, ui, uiRet,
                   queue, appended, dsteps, closeRaised, budgets>>

NextHistory == RecordCommand

SpecHistory == InitHistory /\ [][NextHistory]_vars

\* ---- the history keys on their own ------------------------------------------
\* commands are the numbers 1..MaxRecall; res holds the input field (0 when
\* empty), the command of the last sendData and the last call made
MaxRecall == 3

InitRecall ==
    /\ InitTerminal
    /\ rxBudget = MaxRx
    /\ faultBudget = MaxFaults
    /\ arg = 0
    /\ res = [input |-> 0, sent |-> 0, last |-> "none"]

\* the user types a command into the input field
TypeCommand ==
    /\ \E text \in 1..MaxRecall :
          /\ text # res.input
          /\ res' = [res EXCEPT !.input = text, !.last = "type"]
    /\ UNCHANGED <<arg, command_history, history_index, intervalVars, procVars, uiFields, log_file, inputField, repeatCheck, repeat_timer,
                   tx_bytes_count, portItems, deviceVars, readerVars, ui, uiRet, queue, appended,
                   dsteps, closeRaised, budgets>>

\* sendData() of a non-empty input on an open port, the write succeeding: the
\* history, history_index, then _handle_repeat_send clears the input field
\* unless 'Répéter' is checked
SendCommand ==
    /\ res.input # 0
    /\ command_history' = Recorded(command_history, res.input)
    /\ history_index' = Len(command_history')
    /\ \E repeat \in BOOLEAN :
          res' = [input |-> IF repeat THEN res.input ELSE 0, sent |-> res.input,
                  last |-> "send"]
    /\ UNCHANGED <<arg, intervalVars, procVars, uiFields, log_file, inputField, repeatCheck, repeat_timer,
                   tx_bytes_count, portItems, deviceVars, readerVars, ui, uiRet, queue, appended,
                   dsteps, closeRaised, budgets>>

\* previousCommand(); history_index counts from 0
PreviousCommand ==
    /\ IF command_history # <<>> /\ history_index > 0
       THEN /\ history_index' = history_index - 1
            /\ res' = [res EXCEPT !.input = command_history[history_index' + 1],
                                  !.last = "previous"]
       ELSE /\ res' = [res EXCEPT !.last = "previous"]
            /\ UNCHANGED history_index
    /\ UNCHANGED <<arg, command_history, intervalVars, procVars, uiFields, log_file, inputField, repeatCheck, repeat_timer,
                   tx_bytes_count, portItems, deviceVars, readerVars, ui, uiRet, queue, appended,
                   dsteps, closeRaised, budgets>>

\* nextCommand()
NextCommand ==
    /\ IF command_history = <<>>
       THEN /\ res' = [res EXCEPT !.last = "next"]
            /\ UNCHANGED history_index
       ELSE IF history_index < Len(command_history) - 1
       THEN /\ history_index' = history_index + 1
            /\ res' = [res EXCEPT !.input = command_history[history_index' + 1],
                                  !.last = "next"]
       ELSE /\ history_index' = Len(command_history)
            /\ res' = [res EXCEPT !.input = 0, !.last = "next"]
    /\ UNCHANGED <<arg, command_history, intervalVars, procVars, uiFields, log_file, inputField, repeatCheck, repeat_timer,
                   tx_bytes_count, portItems, deviceVars, readerVars, ui, uiRet, queue, appended,
                   dsteps, closeRaised, budgets>>

NextRecall == TypeCommand \/ SendCommand \/ PreviousCommand \/ NextCommand

SpecRecall == InitRecall /\ [][NextRecall]_vars

\* ---- appendFormattedText(text) on its own -----------------------------------
\* the display is the list current_text.split('\n'): a line of text is "t", the
\* purge message is "s", the empty last line is ""; an empty display is <<"">>
MaxCap == 5
MaxAppends == 8

\* the texts appended: one line or two lines, each ended by '\n'
AppendedTexts == {<<"t", "">>, <<"t", "t", "">>}

\* current_text.count('\n')
NewlineCount(doc) == Len(doc) - 1

\* lines[-keep_lines:]: the last keep_lines lines, and the whole list when
\* keep_lines is 0
LastLines(lines, keep_lines) ==
    IF keep_lines = 0 \/ keep_lines >= Len(lines) THEN lines
    ELSE SubSeq(lines, Len(lines) - keep_lines + 1, Len(lines))

\* self.terminal.append(message): a new paragraph, or the first one of an empty
\* display; the message ends with '\n'
TerminalAppend(doc) == IF doc = <<"">> THEN <<"s", "">> ELSE doc \o <<"s", "">>

\* cursor.movePosition(QTextCursor.End); insertPlainText(text)
InsertAtEnd(doc, text) ==
    SubSeq(doc, 1, Len(doc) - 1)
        \o <<IF doc[Len(doc)] = "" THEN Head(text) ELSE doc[Len(doc)]>>
        \o Tail(text)

\* bufferSizeInput holds an integer of 1..MaxCap or a text that is no integer
InitDisplay ==
    /\ InitTerminal
    /\ rxBudget = MaxRx
    /\ faultBudget = MaxFaults
    /\ arg \in [valid : BOOLEAN, max_lines : 1..MaxCap]
    /\ res = [terminal |-> <<"">>, text |-> <<>>, purged |-> FALSE, raised |-> FALSE,
              calls |-> 0]

\* appendFormattedText(text, color).  The first branch purges and assigns no
\* cursor, so cursor.movePosition raises UnboundLocalError before the insertion;
\* the elif branch has the second half of the first condition and is never taken
AppendFormattedText ==
    /\ res.calls < MaxAppends
    /\ \E text \in AppendedTexts, over_max_bytes \in BOOLEAN :
          LET current_text == res.terminal
              max_lines == arg.max_lines
              keep_lines == (max_lines * 8) \div 10
          IN  IF arg.valid /\ (over_max_bytes \/ NewlineCount(current_text) > max_lines)
              THEN res' = [terminal |-> TerminalAppend(LastLines(current_text, keep_lines)),
                           text |-> text, purged |-> TRUE, raised |-> TRUE,
                           calls |-> res.calls + 1]
              ELSE res' = [terminal |-> InsertAtEnd(current_text, text),
                           text |-> text, purged |-> FALSE, raised |-> FALSE,
                           calls |-> res.calls + 1]
    /\ UNCHANGED <<arg, intervalVars, procVars, uiFields, log_file, sendFields, portItems,
                   deviceVars, readerVars, ui, uiRet, queue, appended, dsteps, closeRaised,
                   budgets>>

NextDisplay == AppendFormattedText

SpecDisplay == InitDisplay /\ [][NextDisplay]_vars

\* ==== properties =========================================================
InDisconnect == ui \in {"d_join", "d_joining", "d_close", "d_null", "d_rest"}
InLoop(t) == pc[t] \notin {"none", "done", "crashed", "exit"}
Last(seq) == seq[Len(seq)]
Count(seq, x) == Cardinality({i \in 1..Len(seq) : seq[i] = x})

\* a disconnect() that found a session has returned, and no other handler ran since
DisconnectReturned == ~InDisconnect /\ dsteps # <<>> /\ Last(dsteps) = "display"

\* C1: a session is fully closed before the next one starts: at most one reader
\* thread is in its read loop, and once a session exists no Serial object other
\* than the session's is open
C1_PriorSessionClosed ==
    /\ Cardinality({t \in Ids : InLoop(t)}) <= 1
    /\ serial_port # None => \A h \in Ids : IsOpen(h) => h = serial_port

\* the position of a step in the order of disconnect()
StepRank(step) ==
    CASE step = "flag" -> 1 [] step = "join" -> 2 [] step = "close" -> 3
      [] step = "null" -> 4 [] step = "log" -> 5 [] step = "timer" -> 6
      [] step = "display" -> 7 [] step = "again" -> 8

SecondDisconnect ==
    /\ ui = "idle" /\ queue # <<>> /\ Head(queue).k = "disc" /\ queue' = Tail(queue)
    /\ dsteps # <<>> /\ Last(dsteps) \in {"display", "again"}

ReadError(t) ==
    pc[t] = "reading" /\ rxq' = rxq /\ error_count'[t] = error_count[t] + 1
DisconnectRequested(t) ==
    Len(queue') > Len(queue) /\ Last(queue').from = t /\ Last(queue').k \in {"err", "disc"}

\* C8: a read error is reported and counted while the loop continues; a
\* disconnect is requested only when the counter reaches max_errors (or when the
\* query of in_waiting fails, which is no read error)
C8_DisconnectOnlyAtThreshold ==
    [][\A t \in Ids :
          ReadError(t) => (DisconnectRequested(t) => error_count'[t] >= max_errors)]_vars

\* C9: no exception escapes readData
C9_NoEscapedException == \A t \in Ids : pc[t] # "crashed"

\* C10: disconnect() never closes the handle while a read on it is in progress
\* (a write is made by the UI thread itself, as is the close)
C10_CloseExcludesRead ==
    [][\A h \in Ids :
          (handle[h] # "closed" /\ handle'[h] = "closed") =>
              \A t \in Ids : ~(pc[t] = "reading" /\ rdh[t] = h)]_vars

\* C11: once disconnect() has cleared the running flag for a session, the reader
\* thread of that session leaves its loop at its next test of the flag, whatever
\* the UI thread did in between: a reader thread that is no longer the session's
\* read_thread never passes the flag test again
C11_CancelledReaderLeaves ==
    [][\A t \in Ids :
          (pc[t] = "w_flag" /\ read_thread # t) => pc'[t] # "w_port"]_vars

RefHexDigits(text) ==
    LET digit(c) == \E i \in 1..16 : c = HexChars[i] \/ c = HexLower[i]
        sel == SelectSeq(text, digit)
    IN  [i \in 1..Len(sel) |-> HexChars[CHOOSE k \in 1..16 : sel[i] \in {HexChars[k], HexLower[k]}]]

\* the digits with one trailing '0' when their number is odd
RefPadded(text) ==
    IF Len(RefHexDigits(text)) % 2 = 1 THEN Append(RefHexDigits(text), "0")
    ELSE RefHexDigits(text)

\* the bytes of the digit pairs
RefDecoded(text) ==
    [i \in 1..(Len(RefPadded(text)) \div 2) |->
        16 * HexVal[RefPadded(text)[2 * i - 1]] + HexVal[RefPadded(text)[2 * i]]]

\* the EOL bytes of the specification's table
RefEol(eol_type) ==
    CASE eol_type = "Aucun" -> <<>>
      [] eol_type = "NL" -> <<10>>
      [] eol_type = "CR" -> <<13>>
      [] eol_type = "NL+CR" -> <<13, 10>>

\* C17: for every text, format and EOL choice the prepared bytes are the reference encoding: in ASCII mode the code points of the text then the EOL bytes; in HEX mode the bytes of the text's hex digit pairs (a '0' appended, with a warning line, when the digits are odd in number) then the EOL bytes, and an error with no bytes when the text has no hex digit
C17_ReferenceEncoding ==
    res.fn = "prepare" =>
        IF arg.format_type = "ASCII"
        THEN /\ ~res.out.raised
             /\ ~res.out.warned
             /\ res.out.data = Utf8(arg.text) \o RefEol(arg.eol_type)
        ELSE IF Len(RefHexDigits(arg.text)) = 0
        THEN res.out.raised /\ res.out.data = <<>>
        ELSE /\ ~res.out.raised
             /\ res.out.warned = (Len(RefHexDigits(arg.text)) % 2 = 1)
             /\ res.out.data = RefDecoded(arg.text) \o RefEol(arg.eol_type)

\* the padded digits grouped in pairs separated by single spaces
RefGrouped(text) ==
    [k \in 1..(3 * (Len(RefPadded(text)) \div 2) - 1) |->
        IF k % 3 = 0 THEN " " ELSE RefPadded(text)[2 * ((k - 1) \div 3) + ((k - 1) % 3) + 1]]

\* format_data_as_hex(parse_hex_string(s)) gives the grouped digits of s
ParseFormatRoundTrip ==
    (res.fn = "format" /\ Len(RefHexDigits(arg.text)) > 0) => res.out = RefGrouped(arg.text)

\* C18: for every input with at least one hex digit, the bytes prepared in HEX mode with no EOL, rendered in HEX display format, are the input's hex digits in upper case, in pairs separated by single spaces, with one trailing '0' when the digits are odd in number; and format_data_as_hex(parse_hex_string(s)) gives the same text
C18_HexRoundTrip ==
    /\ (/\ res.fn = "render"
        /\ arg.format_type = "HEX"
        /\ arg.eol_type = "Aucun"
        /\ Len(RefHexDigits(arg.text)) > 0) => res.out = RefGrouped(arg.text)
    /\ ParseFormatRoundTrip

\* C19: parse_hex_string never raises and returns the bytes of the pairs of the input's hex digits, every other character discarded and one '0' appended when the digits are odd in number; '01-02:AB CD XYZ' gives 01 02 AB CD and '01 02 A' gives 01 02 A0
C19_ParseHexStringTotal ==
    res.fn = "parse" =>
        /\ ~res.out.raised
        /\ res.out.data = RefDecoded(arg.text)
        /\ arg.text = MixedSeparators => res.out.data = <<1, 2, 171, 205>>
        /\ arg.text = OddDigits => res.out.data = <<1, 2, 160>>

C19_Witness ==
    /\ res.fn = "parse"
    /\ arg.text = OddDigits
    /\ res.out = [raised |-> FALSE, data |-> <<1, 2, 160>>]

\* a sendData() that ended in its except clause
SendFailed == SendData /\ Count(appended', "Erreur d'envoi") > 0

\* C20: a sendData that fails appends exactly one error line, leaves the session open and leaves the tx counter, the command history and the repeat timer as they were
C20_FailedSendHasNoEffect ==
    [][SendFailed =>
          /\ Count(appended', "Erreur d'envoi") = 1
          /\ serial_port' = serial_port
          /\ handle' = handle
          /\ tx_bytes_count' = tx_bytes_count
          /\ command_history' = command_history
          /\ history_index' = history_index
          /\ repeat_timer' = repeat_timer]_vars

\* thread t takes a step
Steps(t) == pc'[t] # pc[t]

ReadNow(t) ==
    IF pc[t] = "reading" /\ Steps(t) /\ Len(rxq') < Len(rxq)
    THEN SubSeq(rxq, 1, Len(rxq) - Len(rxq'))
    ELSE <<>>

\* C15: a received frame that matches the filter pattern is posted to the display: a read that completes a frame 'A...\n' under pattern 'A' queues the frame's display line
C15_MatchingFramePosted ==
    [][\A t \in Ids :
          (/\ Contains(ReadNow(t), NL)
           /\ ApplyFilter(DecodeData(temp_buffer[t] \o ReadNow(t)), TRUE, <<65>>))
              => queue' = Append(queue, Req("rx", t))]_vars

\* a sendData() that wrote the data and reached _handle_repeat_send
SendSucceeded == SendData /\ Count(appended', "TX") > 0

\* C21: after a successful send with repeat enabled and a valid interval the timer runs at the interval configured at that moment and the input field is kept; with repeat disabled the timer is stopped and the input field is cleared
C21_TimerReflectsSetting ==
    [][SendSucceeded =>
          IF repeatCheck
          THEN (repeatInterval \in DOMAIN IntervalValue) =>
                  /\ repeat_timer'
                  /\ timer_interval' = IntervalValue[repeatInterval]
                  /\ inputField' = inputField
          ELSE ~repeat_timer' /\ inputField' = <<>>]_vars

\* C22: the command history has no duplicate entry and at most 100 entries; while only new commands are recorded it holds the most recent ones in the order of their recording, the oldest evicted first, so 150 distinct commands leave exactly the last 100
C22_HistoryBounded ==
    /\ Len(command_history) = Min(arg, 100)
    /\ \A i, j \in 1..Len(command_history) :
          i # j => command_history[i] # command_history[j]
    /\ (\A i \in 1..(Len(command_history) - 1) : command_history[i] < command_history[i + 1])
          => command_history = [i \in 1..Len(command_history) |-> arg - Len(command_history) + i]
    /\ history_index \in {-1, Len(command_history)}

C22_Witness ==
    /\ arg = 150
    /\ Len(command_history) = 100
    /\ command_history[1] = 51
    /\ command_history[100] = 150

\* C23: a call of appendFormattedText that purges leaves the display at or under max_lines lines
C23_PurgeRestoresCap ==
    (arg.valid /\ res.purged) => NewlineCount(res.terminal) <= arg.max_lines

\* the display ends with the text
EndsWith(doc, text) ==
    /\ Len(doc) >= Len(text)
    /\ SubSeq(doc, Len(doc) - Len(text) + 1, Len(doc)) = text

\* C24: a call of appendFormattedText that purges still inserts its own text, at the end of the display and after the purge
C24_PurgeThenInsert ==
    res.purged => (~res.raised /\ EndsWith(res.terminal, res.text))

\* C25: a read that returns data leaves its bytes in the temp frame buffer (or flushes them with the frame) and in the receive ring buffer, which exists
C25_ReadFeedsBuffers ==
    [][\A t \in Ids :
          ReadNow(t) # <<>> =>
              /\ HasRxBuffer
              /\ \/ temp_buffer'[t] = temp_buffer[t] \o ReadNow(t)
                 \/ rx_bytes_count' = rx_bytes_count + Len(temp_buffer[t] \o ReadNow(t))]_vars

\* C27: a read that succeeds on an open port posts neither an error line nor a disconnect request
C27_HealthyReadNoError ==
    [][\A t \in Ids :
          ReadNow(t) # <<>> => queue' \in {queue, Append(queue, Req("rx", t))}]_vars

\* the UI thread delivers a handleDisconnect() posted by a reader thread
DeliversDisconnect ==
    /\ ui = "idle"
    /\ queue # <<>>
    /\ Head(queue).k = "disc"
    /\ queue' = Tail(queue)

\* C28: a disconnect request posted by a reader thread closes no session but that of its thread
C28_RequestClosesOwnSession ==
    [][(DeliversDisconnect /\ serial_port # None) => Head(queue).from = read_thread]_vars

\* C29: between two calls on the UI thread an active repeat timer implies a session (serial_port is not None)
C29_TimerImpliesSession ==
    (ui \in {"idle", "closed"} /\ repeat_timer) => serial_port # None

\* disconnect() has returned after it stopped a running repeat timer, and the window was closed
C29_Witness ==
    /\ ui = "closed"
    /\ serial_port = None
    /\ ~repeat_timer
    /\ Count(dsteps, "timer") = 1

C30_PreviousRecallsSent ==
    [][(PreviousCommand /\ res.last = "send") => res'.input = res.sent]_vars

====
